---------------------------- MODULE Spec2Model ----------------------------
(***************************************************************************)
(* Container bindings of the scripting layer                               *)
(* (src/src/lua/functions/items/container_functions.cpp) together with the *)
(* item-container subsystem they drive.                                    *)
(*                                                                         *)
(* The handlers (luaContainer...) are translated from the source.  The     *)
(* item catalog, the item factory, the insertion engine                    *)
(* (Game::internalAddItem), Container::internalAddThing, removal and the   *)
(* container queries are not part of the source file; they are modelled    *)
(* from the design document (sections 3, 4 and 6).                         *)
(***************************************************************************)
EXTENDS Integers, Sequences, FiniteSets

\* ------------------------------------------------------------------ bounds
MaxItems == 3        \* item instances that can exist at once
MaxTime == 2         \* largest value of the millisecond clock
StackSize == 2       \* catalog stackSize of the stackable type
BagCapacity == 2     \* catalog maxCapacity of the bag
RewardCapacity == 1  \* catalog maxCapacity of the reward container

\* --------------------------------------------------------------- constants
INDEX_WHEREEVER == -1
Virtual == 0         \* VirtualCylinder::virtualCylinder (Limbo)
Null == 0            \* an absent userdata reference

Pool == 1..MaxItems

Min(a, b) == IF a < b THEN a ELSE b

\* ----------------------------------------------------------- item catalog
\* Item::items : 1 gold (stackable), 2 bag, 3 reward container,
\* 4 quiver (a container in unbounded mode); any other id is unknown
ITEM_REWARD_CONTAINER == 3

NoType == [id |-> 0, stackable |-> FALSE, stackSize |-> 0,
           container |-> FALSE, maxCapacity |-> 0, unlimited |-> FALSE]

items(itemId) ==
    CASE itemId = 1 -> [id |-> 1, stackable |-> TRUE, stackSize |-> StackSize,
                        container |-> FALSE, maxCapacity |-> 0, unlimited |-> FALSE]
      [] itemId = 2 -> [id |-> 2, stackable |-> FALSE, stackSize |-> 0,
                        container |-> TRUE, maxCapacity |-> BagCapacity, unlimited |-> FALSE]
      [] itemId = ITEM_REWARD_CONTAINER -> [id |-> ITEM_REWARD_CONTAINER, stackable |-> FALSE, stackSize |-> 0,
                        container |-> TRUE, maxCapacity |-> RewardCapacity, unlimited |-> FALSE]
      [] itemId = 4 -> [id |-> 4, stackable |-> FALSE, stackSize |-> 0,
                        container |-> TRUE, maxCapacity |-> BagCapacity, unlimited |-> TRUE]
      [] OTHER -> NoType

getItemIdByName(name) ==
    CASE name = "gold" -> 1
      [] name = "bag" -> 2
      [] name = "reward container" -> 3
      [] name = "quiver" -> 4
      [] OTHER -> 0

VARIABLES
    nItems,        \* items 1..nItems exist
    id,            \* Item::id of each item (0: not allocated)
    count,         \* Item::count of each item
    parent,        \* Item::getParent(): Virtual or the holding container
    slots,         \* Container::itemlist of each item that is a container
    date,          \* attribute ItemAttribute_t::DATE (0: not set)
    rewardCorpse,  \* set by Container::setRewardCorpse
    tempItems,     \* ScriptEnvironment's temporary items
    now,           \* the millisecond clock read by getTimeMsNow
    ret,           \* the value the last handler pushed
    err,           \* the message the last handler gave reportErrorFunc
    engine,        \* whether the last handler called Game::internalAddItem
    created        \* the count the last handler passed to Item::CreateItem

vars == <<nItems, id, count, parent, slots, date, rewardCorpse, tempItems,
          now, ret, err, engine, created>>

world == <<nItems, id, count, parent, slots, date, rewardCorpse, tempItems, now>>

\* ----------------------------------------------------------- Lua values
Nil == [kind |-> "nil", val |-> <<>>]
Bool(b) == [kind |-> "boolean", val |-> <<b>>]
Number(n) == [kind |-> "number", val |-> <<n>>]
Userdata(i) == [kind |-> "userdata", val |-> <<i>>]
Table(s) == [kind |-> "table", val |-> s]
String(s) == [kind |-> "string", val |-> s]

NoError == "none"
NoCreate == <<>>

Exists == 1..nItems
isContainer(i) == i \in Exists /\ items(id[i]).container
Containers == {i \in Exists : isContainer(i)}

\* --------------------------------------------------------------- queries
size(c) == Len(slots[c])

Unbounded == 255

getMaxCapacity(c) == items(id[c]).maxCapacity

capacity(c) == IF items(id[c]).unlimited THEN Unbounded ELSE getMaxCapacity(c)

RECURSIVE AncestorOrSelf(_, _, _, _)
\* a is c or a cylinder above c (fuel bounds the walk up the parents)
AncestorOrSelf(par, a, c, fuel) ==
    IF c = a THEN TRUE
    ELSE IF fuel = 0 \/ par[c] = Virtual THEN FALSE
    ELSE AncestorOrSelf(par, a, par[c], fuel - 1)

isHoldingItem(c, i) ==
    i # Null /\ i # c /\ AncestorOrSelf(parent, c, i, MaxItems)

RECURSIVE Walk(_, _)
\* depth-first, pre-order contents of the containers of list s
Walk(s, fuel) ==
    IF s = <<>> \/ fuel = 0 THEN <<>>
    ELSE LET h == Head(s)
         IN <<h>> \o (IF items(id[h]).container THEN Walk(slots[h], fuel - 1) ELSE <<>>)
                 \o Walk(Tail(s), fuel)

getItems(c, recursive) == IF recursive THEN Walk(slots[c], MaxItems) ELSE slots[c]

getItemHoldingCount(c) == Len(Walk(slots[c], MaxItems))

getItemByIndex(c, index) ==
    IF index >= 0 /\ index < size(c) THEN slots[c][index + 1] ELSE Null

RECURSIVE SumCount(_, _, _)
SumCount(s, itemId, subType) ==
    IF s = <<>> THEN 0
    ELSE (IF id[Head(s)] = itemId /\ (subType = -1 \/ subType = count[Head(s)])
          THEN count[Head(s)] ELSE 0) + SumCount(Tail(s), itemId, subType)

getItemTypeCount(c, itemId, subType) == SumCount(Walk(slots[c], MaxItems), itemId, subType)

RECURSIVE Describe(_)
Describe(s) ==
    IF s = <<>> THEN <<>> ELSE <<id[Head(s)], count[Head(s)]>> \o Describe(Tail(s))

getContentDescription(c, oldProtocol) ==
    <<IF oldProtocol THEN 1 ELSE 0>> \o Describe(Walk(slots[c], MaxItems))

\* ------------------------------------------------------ insertion engine
\* index (1-based) of the first stack of container that can take units of
\* type t, 0 when there is none
MergeTarget(ids, cnts, sl, container, item) ==
    LET t == items(ids[item])
        ok == {p \in 1..Len(sl[container]) :
                 /\ ids[sl[container][p]] = ids[item]
                 /\ cnts[sl[container][p]] < t.stackSize}
    IN IF t.stackable /\ ok # {} THEN CHOOSE p \in ok : \A q \in ok : p <= q ELSE 0

Cap(ids, c) == IF items(ids[c]).unlimited THEN Unbounded ELSE items(ids[c]).maxCapacity

\* Game::internalAddItem(container, item, index, flags).  Its precondition
\* "the item is in Limbo" is established by both callers: luaContainerAddItem
\* hands it a freshly created item, luaContainerAddItemEx returns before the
\* call when the item has a parent.
internalAddItem(ids, cnts, par, sl, container, item, index, flags) ==
    LET t == items(ids[item])
        sz == Len(sl[container])
        cap == Cap(ids, container)
        p == MergeTarget(ids, cnts, sl, container, item)
        failed(code) == [ret |-> code, count |-> cnts, parent |-> par,
                         slots |-> sl, item |-> Null]
        placed(c2) == [ret |-> "RETURNVALUE_NOERROR", count |-> c2,
                       parent |-> [par EXCEPT ![item] = container],
                       slots |-> [sl EXCEPT ![container] = Append(@, item)],
                       item |-> item]
    IN IF AncestorOrSelf(par, item, container, MaxItems)
       THEN failed("CyclicContainment")
       ELSE IF p # 0
       THEN LET target == sl[container][p]
                n == Min(cnts[item], t.stackSize - cnts[target])
                rest == cnts[item] - n
            IN IF rest = 0
               THEN [ret |-> "RETURNVALUE_NOERROR",
                     count |-> [cnts EXCEPT ![target] = @ + n],
                     parent |-> par, slots |-> sl, item |-> target]
               ELSE IF sz >= cap THEN failed("ContainerFull")
               ELSE placed([cnts EXCEPT ![target] = @ + n, ![item] = rest])
       ELSE IF /\ index # INDEX_WHEREEVER
               /\ flags # "force"
               /\ (index < sz \/ index >= cap)
       THEN failed("InvalidIndex")
       ELSE IF sz >= cap THEN failed("ContainerFull")
       ELSE placed(cnts)

\* Container::internalAddThing(thing): unconditional placement
internalAddThing(par, sl, container, item) ==
    [parent |-> [par EXCEPT ![item] = container],
     slots |-> [sl EXCEPT ![container] = Append(@, item)]]

\* Item::CreateItem(itemId, count): Null when the catalog has no such type
CreateItem(itemId, cnt) ==
    IF items(itemId).id = 0 THEN Null ELSE nItems + 1

\* the count field of a created item: the stack quantity of a stackable
\* type (never above 65535 here), 1 for any other type
CreatedCount(itemId, cnt) == IF items(itemId).stackable THEN cnt[2] ELSE 1

\* --------------------------------------------------------- the handlers
\* what a handler that leaves the items alone does to the outputs
Push(v, e) ==
    /\ ret' = v
    /\ err' = e
    /\ engine' = FALSE
    /\ created' = NoCreate
    /\ UNCHANGED world

\* An unsigned 32-bit value is the pair <<hi, lo>> of its 16-bit halves
\* (value hi * 65536 + lo).  U32 is the conversion of an integer to
\* uint32_t, U16 the conversion of a uint32_t to uint16_t.
U32(v) == <<((v - (v % 65536)) \div 65536) % 65536, v % 65536>>
U16(w) == w[2]

\* lines 147-151: the count handed to Item::CreateItem
\*   count = std::min<uint16_t>(count, it.stackSize)
ClampCount_Max(cnt, it) ==
    IF it.stackable THEN <<0, it.stackSize>> ELSE cnt

ClampCount(cnt, it) ==
    IF it.stackable THEN <<0, Min(U16(cnt), it.stackSize % 65536)>> ELSE cnt

\* lines 135-145: the item id of argument 2, 0 for an unknown name
ItemIdOf(arg) ==
    IF arg.isNumber THEN U16(U32(arg.n)) ELSE getItemIdByName(arg.s)

\* lines 164 and 197: ret == RETURNVALUE_NOERROR
isNoError_Always(code) == TRUE

isNoError(code) == code = "RETURNVALUE_NOERROR"

\* When the engine merges all the units into a stack of the container, the
\* created item is placed nowhere: only the script holds it (the pushed
\* userdata), and no state is kept for it.
luaContainerAddItem(container, arg, cnt, index, flags) ==
    LET itemId == ItemIdOf(arg)
        it == items(itemId)
        c == ClampCount(cnt, it)
        item == CreateItem(itemId, c)
        ids == [id EXCEPT ![item] = itemId]
        cnts == [count EXCEPT ![item] = CreatedCount(itemId, c)]
        r == internalAddItem(ids, cnts, parent, slots, container, item, index, flags)
    IN IF container = Null
       THEN Push(Nil, "Container is nullptr")
       ELSE IF ~arg.isNumber /\ itemId = 0
       THEN Push(Nil, "Item id is wrong")
       ELSE IF item = Null
       THEN /\ ret' = Nil
            /\ err' = "Item is nullptr"
            /\ engine' = FALSE
            /\ created' = c
            /\ UNCHANGED world
       ELSE /\ nItems < MaxItems
            /\ engine' = TRUE
            /\ created' = c
            /\ IF isNoError(r.ret)
               THEN /\ ret' = Userdata(item)
                    /\ err' = NoError
                    /\ nItems' = IF r.item = item THEN item ELSE nItems
                    /\ id' = IF r.item = item THEN ids ELSE id
                    /\ count' = IF r.item = item THEN r.count
                                ELSE [r.count EXCEPT ![item] = 0]
                    /\ parent' = r.parent
                    /\ slots' = r.slots
                    /\ UNCHANGED <<date, rewardCorpse, tempItems, now>>
               ELSE /\ ret' = Bool(FALSE)
                    /\ err' = r.ret
                    /\ UNCHANGED world

\* line 188: item->getParent() != VirtualCylinder::virtualCylinder
hasParent_Inverted(item) == parent[item] = Virtual

hasParent_Never(item) == FALSE

hasParent(item) == parent[item] # Virtual

luaContainerAddItemEx(container, item, index, flags) ==
    LET r == internalAddItem(id, count, parent, slots, container, item, index, flags)
    IN IF item = Null
       THEN Push(Nil, NoError)
       ELSE IF container = Null
       THEN Push(Nil, NoError)
       ELSE IF hasParent(item)
       THEN Push(Nil, "Item already has a parent")
       ELSE /\ engine' = TRUE
            /\ created' = NoCreate
            /\ ret' = [kind |-> "number", val |-> <<r.ret>>]
            /\ err' = NoError
            /\ count' = r.count
            /\ parent' = r.parent
            /\ slots' = r.slots
            /\ tempItems' = IF isNoError(r.ret)
                            THEN tempItems \ {item} ELSE tempItems
            /\ UNCHANGED <<nItems, id, date, rewardCorpse, now>>

\* line 284: container->setAttribute(ItemAttribute_t::DATE, rewardId)
setContainerDate_Once(d, container, rewardId) ==
    IF d[container] # 0 THEN d ELSE [d EXCEPT ![container] = rewardId]

setContainerDate(d, container, rewardId) == [d EXCEPT ![container] = rewardId]

luaContainerRegisterReward(container, rewardId) ==
    IF container = Null
    THEN /\ rewardId = now
         /\ Push(Nil, NoError)
    ELSE LET rewardContainer == nItems + 1
             r == internalAddThing(parent, slots, container, rewardContainer)
         IN /\ nItems < MaxItems
            /\ nItems' = rewardContainer
            /\ now' = rewardId
            /\ id' = [id EXCEPT ![rewardContainer] = ITEM_REWARD_CONTAINER]
            /\ count' = [count EXCEPT ![rewardContainer] = 1]
            /\ date' = setContainerDate([date EXCEPT ![rewardContainer] = rewardId],
                                        container, rewardId)
            /\ parent' = r.parent
            /\ slots' = r.slots
            /\ rewardCorpse' = [rewardCorpse EXCEPT ![container] = TRUE]
            /\ ret' = Bool(TRUE)
            /\ err' = NoError
            /\ engine' = FALSE
            /\ created' = NoCreate
            /\ UNCHANGED tempItems

\* ScriptEnvironment::getContainerByUID
getContainerByUID(uid) == IF isContainer(uid) THEN uid ELSE Null

luaContainerCreate(uid) ==
    LET container == getContainerByUID(uid)
    IN IF container # Null THEN Push(Userdata(container), NoError)
       ELSE Push(Nil, NoError)

luaContainerGetSize(container) ==
    IF container # Null THEN Push(Number(size(container)), NoError)
    ELSE Push(Nil, NoError)

luaContainerGetMaxCapacity(container) ==
    IF container # Null THEN Push(Number(getMaxCapacity(container)), NoError)
    ELSE Push(Nil, NoError)

luaContainerGetCapacity(container) ==
    IF container # Null THEN Push(Number(capacity(container)), NoError)
    ELSE Push(Nil, NoError)

RECURSIVE SumEmpty(_)
\* lines 74-78: the free slots of the containers among the items of s
SumEmpty(s) ==
    IF s = <<>> THEN 0
    ELSE (IF items(id[Head(s)]).container
          THEN capacity(Head(s)) - size(Head(s)) ELSE 0) + SumEmpty(Tail(s))

luaContainerGetEmptySlots(container, recursive) ==
    IF container = Null THEN Push(Nil, NoError)
    ELSE LET own == capacity(container) - size(container)
             nested == IF recursive THEN SumEmpty(getItems(container, TRUE)) ELSE 0
         IN Push(Table(U32(own + nested)), NoError)

luaContainerGetItemHoldingCount(container) ==
    IF container # Null THEN Push(Number(getItemHoldingCount(container)), NoError)
    ELSE Push(Nil, NoError)

luaContainerGetItem(container, index) ==
    IF container = Null THEN Push(Nil, NoError)
    ELSE LET item == getItemByIndex(container, index)
         IN IF item # Null THEN Push(Userdata(item), NoError)
            ELSE Push(Nil, NoError)

luaContainerHasItem(container, item) ==
    IF container # Null THEN Push(Bool(isHoldingItem(container, item)), NoError)
    ELSE Push(Nil, NoError)

\* Container::getCorpseOwner: 0, no restricted looter is ever set here
getCorpseOwner(container) == 0

luaContainerGetCorpseOwner(container) ==
    IF container # Null THEN Push(Number(getCorpseOwner(container)), NoError)
    ELSE Push(Nil, NoError)

luaContainerGetItemCountById(container, arg, subType) ==
    LET itemId == ItemIdOf(arg)
    IN IF container = Null THEN Push(Nil, NoError)
       ELSE IF ~arg.isNumber /\ itemId = 0 THEN Push(Nil, NoError)
       ELSE Push(Number(getItemTypeCount(container, itemId, subType)), NoError)

luaContainerGetContentDescription(container, oldProtocol) ==
    IF container # Null
    THEN Push(String(getContentDescription(container, oldProtocol)), NoError)
    ELSE Push(Nil, NoError)

luaContainerGetItems(container, recursive) ==
    IF container = Null THEN Push(Nil, NoError)
    ELSE Push(Table(getItems(container, recursive)), NoError)

\* ------------------------------------- the script's other item operations
\* Game.createItem: a new item in Limbo, kept as a temporary item
createItem(itemId, cnt) ==
    LET item == CreateItem(itemId, cnt)
    IN /\ item # Null
       /\ nItems < MaxItems
       /\ nItems' = item
       /\ id' = [id EXCEPT ![item] = itemId]
       /\ count' = [count EXCEPT ![item] = CreatedCount(itemId, cnt)]
       /\ tempItems' = tempItems \cup {item}
       /\ ret' = Userdata(item)
       /\ err' = NoError
       /\ engine' = FALSE
       /\ created' = cnt
       /\ UNCHANGED <<parent, slots, date, rewardCorpse, now>>

Without(s, item) == SelectSeq(s, LAMBDA x : x # item)

\* removal of an item from the container that holds it: back to Limbo
removeItem(item) ==
    /\ item \in Exists
    /\ parent[item] # Virtual
    /\ slots' = [slots EXCEPT ![parent[item]] = Without(@, item)]
    /\ parent' = [parent EXCEPT ![item] = Virtual]
    /\ ret' = Bool(TRUE)
    /\ err' = NoError
    /\ engine' = FALSE
    /\ created' = NoCreate
    /\ UNCHANGED <<nItems, id, count, date, rewardCorpse, tempItems, now>>

\* ------------------------------------------------------------- inputs
ContainerArgs == Containers \cup {Null}
ItemArgs == Exists \cup {Null}
IdArgs == {[isNumber |-> TRUE, n |-> n, s |-> ""] : n \in {0, 2}}
          \cup {[isNumber |-> FALSE, n |-> 0, s |-> x] : x \in {"gold", "nothing"}}
CountArgs == {<<0, 1>>, <<1, 0>>, <<65535, 65535>>}
IndexArgs == {INDEX_WHEREEVER, 0, 1}
PlaceArgs == {<<INDEX_WHEREEVER, "none">>, <<0, "none">>, <<0, "force">>,
              <<BagCapacity, "none">>}
SubTypeArgs == {-1, 1}

Init ==
    /\ nItems = 1
    /\ \E t \in {2, ITEM_REWARD_CONTAINER} : id = [i \in Pool |-> IF i = 1 THEN t ELSE 0]
    /\ count = [i \in Pool |-> IF i = 1 THEN 1 ELSE 0]
    /\ parent = [i \in Pool |-> Virtual]
    /\ slots = [i \in Pool |-> <<>>]
    /\ date = [i \in Pool |-> 0]
    /\ rewardCorpse = [i \in Pool |-> FALSE]
    /\ tempItems = {1}
    /\ now = 1
    /\ ret = Nil
    /\ err = NoError
    /\ engine = FALSE
    /\ created = NoCreate

\* the operations that change the items
Core ==
    \/ \E c \in ContainerArgs, arg \in IdArgs, cnt \in CountArgs, pl \in PlaceArgs :
          luaContainerAddItem(c, arg, cnt, pl[1], pl[2])
    \/ \E c \in ContainerArgs, item \in ItemArgs, pl \in PlaceArgs :
          luaContainerAddItemEx(c, item, pl[1], pl[2])
    \/ \E c \in ContainerArgs, rewardId \in now..MaxTime :
          luaContainerRegisterReward(c, rewardId)
    \/ \E itemId \in {1, 2, 4}, cnt \in 1..StackSize :
          /\ items(itemId).stackable \/ cnt = 1
          /\ createItem(itemId, <<0, cnt>>)
    \/ \E item \in Pool : removeItem(item)

\* the read-only handlers
Queries ==
    \/ \E uid \in Pool : luaContainerCreate(uid)
    \/ \E c \in ContainerArgs : luaContainerGetSize(c)
    \/ \E c \in ContainerArgs : luaContainerGetMaxCapacity(c)
    \/ \E c \in ContainerArgs : luaContainerGetCapacity(c)
    \/ \E c \in ContainerArgs, rec \in BOOLEAN : luaContainerGetEmptySlots(c, rec)
    \/ \E c \in ContainerArgs : luaContainerGetItemHoldingCount(c)
    \/ \E c \in ContainerArgs, index \in IndexArgs \ {INDEX_WHEREEVER} :
          luaContainerGetItem(c, index)
    \/ \E c \in ContainerArgs, item \in ItemArgs : luaContainerHasItem(c, item)
    \/ \E c \in ContainerArgs : luaContainerGetCorpseOwner(c)
    \/ \E c \in ContainerArgs, arg \in IdArgs, subType \in SubTypeArgs :
          luaContainerGetItemCountById(c, arg, subType)
    \/ \E c \in ContainerArgs, old \in BOOLEAN :
          luaContainerGetContentDescription(c, old)
    \/ \E c \in ContainerArgs, rec \in BOOLEAN : luaContainerGetItems(c, rec)

Next == Core

NextApi == Core \/ Queries

\* the items under the operations that change them
Spec == Init /\ [][Next]_vars

\* the whole scripting interface of the container
SpecApi == Init /\ [][NextApi]_vars

\* ------------------------------------------------------------ properties
NOERROR == "RETURNVALUE_NOERROR"

InSlots(c, i) == \E p \in 1..Len(slots[c]) : slots[c][p] = i

\* the places (container, position) at which item i is held
Places(i) == {cp \in Pool \X (1..MaxItems) :
                cp[2] <= Len(slots[cp[1]]) /\ slots[cp[1]][cp[2]] = i}

Range(s) == {s[p] : p \in 1..Len(s)}

\* C1: addItemEx of an item that has a parent (a real container, not the
\* virtual cylinder) pushes nil, reports "Item already has a parent", does
\* not call the insertion engine and leaves slots, counts and owners alone.
C1_AlreadyOwned ==
    [][\A item \in Exists :
         parent[item] # Virtual =>
           \A c \in Containers, pl \in PlaceArgs :
              luaContainerAddItemEx(c, item, pl[1], pl[2]) =>
                /\ ret' = Nil
                /\ err' = "Item already has a parent"
                /\ ~engine'
                /\ slots' = slots
                /\ parent' = parent
                /\ count' = count]_vars

\* an owned item was refused
C1_Witness ==
    /\ err = "Item already has a parent"
    /\ ret = Nil
    /\ \E item \in Exists : parent[item] # Virtual /\ InSlots(parent[item], item)

\* C2: a container that is not in unbounded mode never holds more items
\* than its capacity.
C2_SizeWithinCapacity ==
    \A c \in Containers : ~items(id[c]).unlimited => size(c) <= capacity(c)

\* C3: every item is held at no more than one place of one container; its
\* parent is that container, or the virtual cylinder when it is held nowhere.
C3_SingleOwner ==
    \A i \in Exists :
       /\ Cardinality(Places(i)) <= 1
       /\ \A c \in Pool : InSlots(c, i) => isContainer(c) /\ parent[i] = c
       /\ parent[i] # Virtual => InSlots(parent[i], i)

\* two containers hold an item each, and an item is back in Limbo
C3_Witness ==
    /\ \E i, j \in Exists : /\ parent[i] # Virtual
                             /\ parent[j] # Virtual
                             /\ parent[i] # parent[j]
    /\ ret = [kind |-> "number", val |-> <<NOERROR>>]

\* the last handler called the insertion engine and it did not succeed
EngineFailed ==
    /\ engine
    /\ \/ ret = Bool(FALSE)
       \/ ret.kind = "number" /\ ret.val # <<NOERROR>>

\* C4: an insertion that returns a failure code changes no slot sequence, no
\* count and no custody (the owner of an item, the set of temporary items,
\* the items that exist).
C4_AllOrNothing ==
    [][EngineFailed' => UNCHANGED <<slots, count, parent, tempItems, nItems, id>>]_vars

\* a merge that needed a further slot was refused by a full container
C4_Witness ==
    /\ engine
    /\ ret = [kind |-> "number", val |-> <<"ContainerFull">>]
    /\ \E c \in Containers : \E p \in 1..Len(slots[c]) :
          /\ items(id[slots[c][p]]).stackable
          /\ count[slots[c][p]] < StackSize
          /\ size(c) >= capacity(c)

\* no container is among the items held, at any depth, below itself
Acyclic == \A c \in Containers : c \notin Range(Walk(slots[c], MaxItems))

\* C5: addItemEx of a container in Limbo into itself or into a container
\* nested in it returns CyclicContainment and changes nothing; no container
\* is ever held below itself.
C5_NoCycle ==
    /\ []Acyclic
    /\ [][\A item \in Containers :
            parent[item] = Virtual =>
              \A c \in Containers, pl \in PlaceArgs :
                 /\ luaContainerAddItemEx(c, item, pl[1], pl[2])
                 /\ c = item \/ c \in Range(Walk(slots[item], MaxItems))
                 => /\ ret' = [kind |-> "number", val |-> <<"CyclicContainment">>]
                    /\ UNCHANGED world]_vars

\* a container that holds a container was refused
C5_Witness ==
    /\ ret = [kind |-> "number", val |-> <<"CyclicContainment">>]
    /\ \E c \in Containers : /\ parent[c] = Virtual
                              /\ \E d \in Range(slots[c]) : isContainer(d)

\* a handler that reads the container was called without a container
NullQuery ==
    \/ luaContainerGetSize(Null)
    \/ luaContainerGetMaxCapacity(Null)
    \/ luaContainerGetCapacity(Null)
    \/ \E rec \in BOOLEAN : luaContainerGetEmptySlots(Null, rec)
    \/ luaContainerGetItemHoldingCount(Null)
    \/ \E index \in IndexArgs : luaContainerGetItem(Null, index)
    \/ \E item \in ItemArgs : luaContainerHasItem(Null, item)
    \/ luaContainerGetCorpseOwner(Null)
    \/ \E arg \in IdArgs, subType \in SubTypeArgs :
          luaContainerGetItemCountById(Null, arg, subType)
    \/ \E old \in BOOLEAN : luaContainerGetContentDescription(Null, old)
    \/ \E rec \in BOOLEAN : luaContainerGetItems(Null, rec)

\* a handler that changes the container was called without a container
NullMutation ==
    \/ \E arg \in IdArgs, cnt \in CountArgs, pl \in PlaceArgs :
          luaContainerAddItem(Null, arg, cnt, pl[1], pl[2])
    \/ \E item \in ItemArgs, pl \in PlaceArgs :
          luaContainerAddItemEx(Null, item, pl[1], pl[2])
    \/ luaContainerRegisterReward(Null, now)

\* C6: every handler called with an absent container pushes nil and changes
\* nothing, and addItem, addItemEx and registerReward also report an error.
C6_NullContainer ==
    [][/\ NullQuery \/ NullMutation => ret' = Nil /\ UNCHANGED world
       /\ NullMutation => err' # NoError]_vars

RewardsIn(sl, ids, c) == {r \in Range(sl[c]) : ids[r] = ITEM_REWARD_CONTAINER}

\* C7: each registerReward on a container returns true, adds one more reward
\* item stamped with the time of this call, leaves the reward items already
\* there and their stamps alone, sets the container's stamp to the time of
\* this call whatever it was, and leaves the reward flag set.
C7_RewardEveryCall ==
    [][\A c \in Containers, t \in now..MaxTime :
          luaContainerRegisterReward(c, t) =>
            LET new == nItems + 1
            IN /\ ret' = Bool(TRUE)
               /\ rewardCorpse'[c]
               /\ date'[c] = t
               /\ date'[new] = t
               /\ new \notin RewardsIn(slots, id, c)
               /\ RewardsIn(slots', id', c) = RewardsIn(slots, id, c) \cup {new}
               /\ \A r \in RewardsIn(slots, id, c) : date'[r] = date[r]]_vars

\* a container registered twice: two reward items with the stamps of their
\* calls, the container with the later stamp
C7_Witness ==
    \E c \in Containers : \E r1, r2 \in RewardsIn(slots, id, c) :
       /\ rewardCorpse[c]
       /\ r2 = nItems
       /\ date[r1] < date[r2]
       /\ date[c] = date[r2]
       /\ date[c] = now
       /\ ret = Bool(TRUE)

\* the container holds nothing, or one stack of gold that is not empty
OneStack(c) ==
    \/ slots[c] = <<>>
    \/ /\ Len(slots[c]) = 1
       /\ id[slots[c][1]] = 1
       /\ count[slots[c][1]] \in 1..StackSize

Units(c) == IF slots[c] = <<>> THEN 0 ELSE count[slots[c][1]]

StackWithinLimit ==
    \A i \in Exists : items(id[i]).stackable => count[i] <= items(id[i]).stackSize

C9_ReturnedItemIsHeld ==
    [][/\ \A c \in Containers, arg \in IdArgs, cnt \in CountArgs, pl \in PlaceArgs :
            /\ luaContainerAddItem(c, arg, cnt, pl[1], pl[2])
            /\ ret'.kind = "userdata"
            => parent'[ret'.val[1]] = c
       /\ \A c \in Containers, item \in Exists, pl \in PlaceArgs :
            /\ luaContainerAddItemEx(c, item, pl[1], pl[2])
            /\ engine'
            /\ ret'.val = <<NOERROR>>
            => parent'[item] = c]_vars

\* min(cnt, limit) of an unsigned 32-bit count and a 16-bit limit
MinU32(cnt, limit) == IF cnt[1] > 0 \/ cnt[2] > limit THEN <<0, limit>> ELSE cnt

\* C10: the count addItem hands to Item::CreateItem is
\* min(requested count, stackSize) for a stackable type, for every requested
\* count of 32 bits, and the requested count for any other type.
C10_CountClamped ==
    [][\A c \in Containers, arg \in IdArgs, cnt \in CountArgs, pl \in PlaceArgs :
          /\ luaContainerAddItem(c, arg, cnt, pl[1], pl[2])
          /\ created' # NoCreate
          => created' = IF items(ItemIdOf(arg)).stackable
                        THEN MinU32(cnt, items(ItemIdOf(arg)).stackSize)
                        ELSE cnt]_vars

====
